---- MODULE Spec2Model ----
(***************************************************************************)
(* A model of the Ren3 batch processor (src/ren3_processor.py): the        *)
(* request gateway _api_call with its retry loop, the polling loop of      *)
(* poll_job_status, and the per-batch pipeline of process_promo_folder.    *)
(* The Remote Agent Service is the environment: every request draws its    *)
(* outcome (timeout, connection error, HTTP status and body) from a small  *)
(* set.                                                                    *)
(***************************************************************************)
EXTENDS Integers, Sequences, FiniteSets, TLC

(* ------------------------------ bounds -------------------------------- *)

\* MAX_RETRIES ranges over 0..MaxRetries (the code's default is 3).
MaxRetries == 3
\* Number of eligible JSON files in the input folder: 0..MaxFiles.
MaxFiles == 2
\* BATCH_SIZE ranges over 1..MaxBatchSize.
MaxBatchSize == 2
\* Longest log list a get_agentjoblogs response carries.
MaxLogs == 2
\* Longest document list a get_docs response carries.
MaxDocs == 2
\* Most rows a downloaded artifact holds.
MaxRows == 1
\* Most runs of the driver on the same promo folder.
MaxRuns == 2

(* ------------------------- program constants -------------------------- *)

\* time.sleep(5 * (attempt + 1)) in _api_call
BackoffUnit == 5
\* POLL_INTERVAL default
PollInterval == 15
\* time.sleep(5) after the upload
IngestDelay == 5
\* time.sleep(5) between batches
BatchDelay == 5
\* log.get('type') == 2
CompletionType == 2

(* ------------------------------ strings ------------------------------- *)
\* Texts are sequences of one-character strings, so that lower() and the
\* substring test are computed rather than assumed.

Lower(c) ==
    CASE c = "C" -> "c"
      [] c = "O" -> "o"
      [] c = "M" -> "m"
      [] c = "P" -> "p"
      [] c = "L" -> "l"
      [] c = "E" -> "e"
      [] c = "T" -> "t"
      [] c = "D" -> "d"
      [] c = "J" -> "j"
      [] c = "B" -> "b"
      [] OTHER -> c

\* str.lower()
LowerText(s) == [i \in 1..Len(s) |-> Lower(s[i])]

\* sub in s
Contains(sub, s) ==
    \E off \in 0..(Len(s) - Len(sub)) :
        \A k \in 1..Len(sub) : s[off + k] = sub[k]

Completed == <<"c","o","m","p","l","e","t","e","d">>

\* "Job COMPLETED", "progress 10%", "Job complete"
TextDone == <<"J","o","b"," ","C","O","M","P","L","E","T","E","D">>
TextProgress == <<"p","r","o","g","r","e","s","s"," ","1","0","%">>
TextNearMiss == <<"J","o","b"," ","c","o","m","p","l","e","t","e">>

\* The log entries the service may send: a completion entry, the same text
\* under another type, a progress entry, and a type 2 entry that only
\* nearly says "completed".
LogEntries ==
    {[type |-> 2, text |-> TextDone],
     [type |-> 1, text |-> TextDone],
     [type |-> 1, text |-> TextProgress],
     [type |-> 2, text |-> TextNearMiss]}

SeqsUpTo(S, n) == UNION {[1..k -> S] : k \in 0..n}

LogLists == SeqsUpTo(LogEntries, MaxLogs)

ExpectedName == "competitive_analysis_results.csv"
DocNames == {ExpectedName, "summary.csv"}
\* A listed document: the service gives each a uuid of its own (its rank).
DocLists ==
    {[i \in 1..Len(names) |-> [uuid |-> i, doc_filename |-> names[i]]] :
        names \in SeqsUpTo(DocNames, MaxDocs)}

(* ------------------------------- files -------------------------------- *)
\* File names are sequences of characters too: glob, startswith and the
\* sort compare them character by character.

NameA == <<"a",".","j","s","o","n">>
NameAb == <<"a","b",".","j","s","o","n">>
NameUpperB == <<"B",".","j","s","o","n">>
NameB == <<"b",".","j","s","o","n">>
NameAUnder == <<"a","_",".","j","s","o","n">>
NameMarked == <<"_","a",".","j","s","o","n">>
NameText == <<"a",".","t","x","t">>

\* ord(c) for the characters file names are made of here
CharCode(c) ==
    CASE c = "." -> 46
      [] c = "B" -> 66
      [] c = "_" -> 95
      [] c = "a" -> 97
      [] c = "b" -> 98
      [] c = "j" -> 106
      [] c = "n" -> 110
      [] c = "o" -> 111
      [] c = "s" -> 115
      [] c = "t" -> 116
      [] c = "x" -> 120

\* s < t as Python compares strings
NameLess(s, t) ==
    \/ \E i \in 1..Len(s) :
          /\ i <= Len(t)
          /\ \A k \in 1..(i - 1) : s[k] = t[k]
          /\ CharCode(s[i]) < CharCode(t[i])
    \/ /\ Len(s) < Len(t)
       /\ \A k \in 1..Len(s) : s[k] = t[k]

StartsWith(s, p) == Len(p) <= Len(s) /\ \A k \in 1..Len(p) : s[k] = p[k]
EndsWith(s, p) ==
    Len(p) <= Len(s) /\ \A k \in 1..Len(p) : s[Len(s) - Len(p) + k] = p[k]

DotJson == <<".","j","s","o","n">>
Marker == <<"_">>

\* The eligible names a folder of the pipeline runs holds, in no order.
EligibleNames == <<NameB, NameA, NameUpperB, NameAb, NameAUnder>>

\* A folder with n eligible files, one marked file and one text file.
FolderWith(n) == {EligibleNames[i] : i \in 1..n} \cup {NameMarked, NameText}

\* Every name a folder may hold.
NamePool == {NameA, NameAb, NameUpperB, NameB, NameAUnder, NameMarked, NameText}

\* What a downloaded batch_NNN.csv holds: its rows, and whether
\* pd.read_csv can parse it.
NoFile == [readable |-> FALSE, rows |-> 0]
ArtifactContents == [readable : BOOLEAN, rows : 1..MaxRows]

\* The entries of /app/processed/<folder name>, as the driver finds them.
NameXlsx == <<"f","i","n","a","l","_","a","n","a","l","y","s","i","s","_","1",".","x","l","s","x">>
NameNotes == <<"f","i","n","a","l","_","a","n","a","l","y","s","i","s","_","1",".","t","x","t">>
FinalPrefix == <<"f","i","n","a","l","_","a","n","a","l","y","s","i","s","_">>
DotXlsx == <<".","x","l","s","x">>
\* final_analysis_{timestamp}.xlsx, the name the orchestrator writes
NameWritten == <<"f","i","n","a","l","_","a","n","a","l","y","s","i","s","_","2",".","x","l","s","x">>
ProcessedStates ==
    {[exists |-> FALSE, names |-> {}],
     [exists |-> TRUE, names |-> {NameNotes}],
     [exists |-> TRUE, names |-> {NameXlsx}],
     [exists |-> TRUE, names |-> {NameXlsx, NameNotes}]}

(* ------------------------------ service ------------------------------- *)

\* What response.json() yields; none marks Python's None.
NoBody == [none |-> TRUE, success |-> FALSE, obj |-> <<>>]

Objs(ep) ==
    IF ep = "get_agentjoblogs" THEN LogLists
    ELSE IF ep = "get_docs" THEN DocLists
    ELSE {<<>>}

Bodies(ep) ==
    {[none |-> FALSE, success |-> FALSE, obj |-> <<>>]} \cup
    {[none |-> FALSE, success |-> TRUE, obj |-> o] : o \in Objs(ep)}

HttpErrorStatuses == {404, 500}

\* The requests that fail.
FailedOutcomes ==
    {[kind |-> k, status |-> 0, body |-> NoBody] : k \in {"Timeout", "ConnectionError"}} \cup
    {[kind |-> "HTTP", status |-> s, body |-> NoBody] : s \in HttpErrorStatuses}

\* Every outcome the get_filestream request can have: a failure, a 200
\* whose stream breaks after one row was written, or a 200 streamed whole.
DownloadOutcomes ==
    {[kind |-> o.kind, status |-> o.status, content |-> NoFile] : o \in FailedOutcomes} \cup
    {[kind |-> "StreamError", status |-> 200, content |-> [readable |-> TRUE, rows |-> 1]]} \cup
    {[kind |-> "HTTP", status |-> 200, content |-> c] : c \in ArtifactContents}

\* Every outcome one request can have.
WireOutcomes(ep) ==
    {[kind |-> k, status |-> 0, body |-> NoBody] : k \in {"Timeout", "ConnectionError"}} \cup
    {[kind |-> "HTTP", status |-> s, body |-> NoBody] : s \in HttpErrorStatuses} \cup
    {[kind |-> "HTTP", status |-> 200, body |-> b] : b \in Bodies(ep)}

(* ------------------------------- state -------------------------------- *)

VARIABLES
    max_retries,    \* Ren3Config.max_retries
    batch_size,     \* Ren3Config.batch_size
    folder_exists,  \* promo_folder.exists()
    directory,      \* the names in promo_folder
    has_arg,        \* len(sys.argv) >= 2
    config_ok,      \* the required environment variables are set
    has_promo,      \* /app/output holds a promo_* folder
    cwd_is_app,     \* the process' working directory is /app
    processed,      \* /app/processed/<folder name> and its entries
    runs,           \* the number of the driver run on this promo folder
    produced,       \* history: an earlier run wrote a combined result
    consumed,       \* the open files whose handle was read to its end
    uploads,        \* history: per upload attempt of the batch, the files
                    \* whose whole content was in the request body
    json_files,     \* get_json_files(promo_folder)
    pc,             \* position in process_promo_folder
    batches,        \* create_batches(json_files)
    batch_num,      \* the for loop's batch_num
    csv_files,      \* batch numbers whose csv_path was appended
    output_files,   \* get_output_files' result
    csv_file,       \* uuid of the located document, 0 for None
    result,         \* process_promo_folder's return value
    call,           \* the frame of _api_call
    poll_pc,        \* position in poll_job_status
    logs,           \* poll_job_status' logs
    last_sleep,     \* seconds of the latest time.sleep outside _api_call
    entered,        \* history: the pipeline states each batch entered
    outcome,        \* history: each batch's fate
    started,        \* history: batch numbers in the order their pipeline started
    delays,         \* history: the batches after which the 5 s delay was taken
    artifacts,      \* the batch_NNN.csv written under processed_dir, per batch
    excel,          \* the final_analysis workbook combine_csvs wrote
    merges,         \* history: calls of combine_csvs
    exit_code,      \* sys.exit's code, -1 while the process runs
    config_loaded,  \* history: Ren3Config() was called
    contacted,      \* history: a request was sent to the service
    download,       \* history: the get_filestream requests of the batch
    open_handles    \* the files upload_files has opened and not closed

vars == <<max_retries, batch_size, folder_exists, directory, has_arg,
          config_ok, has_promo, cwd_is_app, processed, runs, produced,
          consumed, uploads, json_files, pc, batches,
          batch_num, csv_files, output_files, csv_file, result, call,
          poll_pc, logs, last_sleep, entered, outcome, started, delays,
          artifacts, excel, merges, exit_code, config_loaded, contacted,
          download, open_handles>>

\* What a run is given and never changes.
config == <<max_retries, batch_size, folder_exists, directory, has_arg,
            config_ok, has_promo, cwd_is_app>>

\* What the file system and the process keep beside the pipeline's locals.
disk == <<artifacts, excel, merges, open_handles>>
proc == <<exit_code, config_loaded>>
traffic == <<contacted, download>>
later == <<runs, produced>>
reads == <<consumed, uploads>>

NoDownload == [sent |-> 0, doc |-> 0]
NoExcel == [written |-> FALSE, rows |-> <<>>]

PipelineOrder ==
    <<"UPLOADING", "INGESTING", "VERIFYING", "STARTING_JOB", "POLLING",
      "FETCHING_DETAILS", "LISTING_OUTPUTS", "LOCATING_ARTIFACT",
      "DOWNLOADING", "DONE">>

\* No request was made yet.
NoWire == [kind |-> "none", status |-> 0, body |-> NoBody]

\* The frame of _api_call: pc, attempt, response and error are the code's;
\* sent (requests made), waits (the sleeps taken, in order) and wire (the
\* outcome of the latest request) record what the call did.
IdleCall ==
    [pc |-> "idle", endpoint |-> "none", attempt |-> 0, sent |-> 0,
     waits |-> <<>>, wire |-> NoWire, response |-> NoBody, error |-> "none"]

(* ----------------------------- _api_call ------------------------------ *)

\* A fresh frame of _api_call for one endpoint.
NewCall(ep) == [IdleCall EXCEPT !.pc = "running", !.endpoint = ep]

\* Variant: a response that reports failure is treated as a failed request.
RequestFails_or_reported(o) ==
    \/ o.kind \in {"Timeout", "ConnectionError"}
    \/ o.kind = "HTTP" /\ o.status >= 400 /\ o.status < 600
    \/ o.kind = "HTTP" /\ ~o.body.success

\* requests raises a RequestException: a timeout, a connection error, or
\* raise_for_status() on a 4xx/5xx status.
RequestFails(o) ==
    \/ o.kind \in {"Timeout", "ConnectionError"}
    \/ o.kind = "HTTP" /\ o.status >= 400 /\ o.status < 600

ErrorOf(o) == IF o.kind = "HTTP" THEN "HTTPError" ELSE o.kind

\* Variant: the backoff counts attempts from 0.
Backoff_zero_based(attempt) == BackoffUnit * attempt

\* time.sleep(5 * (attempt + 1))
Backoff(attempt) == BackoffUnit * (attempt + 1)

\* attempt < self.config.max_retries - 1
MayRetry(attempt) == attempt < max_retries - 1

\* The files argument of the call under way: the open files of the batch
\* for the upload, nothing for the other requests.
FilesOfCall ==
    IF call.endpoint = "upload_agenttmpfiles"
    THEN {batches[batch_num][i] : i \in 1..Len(batches[batch_num])}
    ELSE {}

\* One pass of the for loop's body: one request and what follows it.  The
\* body of an upload is built by reading each handle from where it stands
\* to its end.
ApiAttempt ==
    /\ call.pc = "running"
    /\ call.attempt < max_retries
    /\ \E o \in WireOutcomes(call.endpoint) :
        call' =
            IF RequestFails(o)
            THEN IF MayRetry(call.attempt)
                 THEN [call EXCEPT !.sent = @ + 1,
                                   !.wire = o,
                                   !.waits = Append(@, Backoff(call.attempt)),
                                   !.attempt = @ + 1]
                 ELSE [call EXCEPT !.sent = @ + 1,
                                   !.wire = o,
                                   !.pc = "raised",
                                   !.error = ErrorOf(o)]
            ELSE [call EXCEPT !.sent = @ + 1,
                              !.wire = o,
                              !.pc = "returned",
                              !.response = o.body]
    /\ contacted' = TRUE
    /\ uploads' = IF FilesOfCall # {}
                  THEN Append(uploads, FilesOfCall \ consumed)
                  ELSE uploads
    /\ consumed' = consumed \cup FilesOfCall
    /\ UNCHANGED <<json_files, delays, disk, proc, download>>
    /\ UNCHANGED <<processed, later>>
    /\ UNCHANGED <<config, pc, batches, batch_num, csv_files, output_files,
                   csv_file, result, poll_pc, logs, last_sleep, entered,
                   outcome, started>>

\* range(max_retries) is exhausted without a return or a raise: the
\* function falls off its end and yields None.
ApiLoopEnd ==
    /\ call.pc = "running"
    /\ ~(call.attempt < max_retries)
    /\ call' = [call EXCEPT !.pc = "returned", !.response = NoBody]
    /\ UNCHANGED <<json_files, delays, disk, proc, traffic>>
    /\ UNCHANGED <<processed, later, reads>>
    /\ UNCHANGED <<config, pc, batches, batch_num, csv_files, output_files,
                   csv_file, result, poll_pc, logs, last_sleep, entered,
                   outcome, started>>

\* The call is over: it returned or raised.
CallOver == call.pc \in {"returned", "raised"}

\* Variant: the success field is not looked at.
CallSucceeded_unchecked == call.pc = "returned"

\* response.get('success') is reached and truthy.  A raised call and a None
\* response (AttributeError on .get) both count as the caller's exception.
CallSucceeded ==
    /\ call.pc = "returned"
    /\ ~call.response.none
    /\ call.response.success

(* ------------------------ process_promo_folder ------------------------ *)

RECURSIVE BatchesFrom(_, _, _)
\* for i in range(0, len(json_files), batch_size): json_files[i:i+batch_size]
BatchesFrom(files, size, i) ==
    IF i >= Len(files) THEN <<>>
    ELSE <<SubSeq(files, i + 1, IF i + size > Len(files) THEN Len(files) ELSE i + size)>>
         \o BatchesFrom(files, size, i + size)

\* Variant: only the full batches are kept.
create_batches_full_only(files, size) ==
    BatchesFrom(SubSeq(files, 1, (Len(files) \div size) * size), size, 0)

\* The batches of json_files, in order.
create_batches(files, size) == BatchesFrom(files, size, 0)

Enter(b, s) == entered' = [entered EXCEPT ![b] = Append(@, s)]

\* Variant: enumerate(batches), numbering from 0.
NextBatchNum_from_zero(n) == IF started = <<>> THEN 0 ELSE n + 1

\* enumerate(batches, 1): the number the next batch carries.
NextBatchNum(n) == n + 1

\* Variant: break instead of continue.
FailBatch_break ==
    /\ outcome' = [outcome EXCEPT ![batch_num] = "failed"]
    /\ pc' = "COMBINE"
    /\ call' = IdleCall
    /\ UNCHANGED <<entered, last_sleep>>

\* except Exception: log, continue
FailBatch ==
    /\ outcome' = [outcome EXCEPT ![batch_num] = "failed"]
    /\ pc' = "LOOP"
    /\ call' = IdleCall
    /\ UNCHANGED <<entered, last_sleep>>

RECURSIVE ListOf(_)
\* The names of a set in the order the file system yields them.
ListOf(names) ==
    IF names = {} THEN <<>>
    ELSE LET n == CHOOSE x \in names : TRUE IN <<n>> \o ListOf(names \ {n})

\* Variant: the names starting with '_' are kept.
get_json_files_unfiltered(dir) ==
    SortSeq(ListOf({n \in dir : EndsWith(n, DotJson)}), NameLess)

\* glob("*.json"), skip the names starting with '_', sort()
get_json_files(dir) ==
    LET globbed == {n \in dir : EndsWith(n, DotJson)}
        kept == {n \in globbed : ~StartsWith(n, Marker)}
    IN SortSeq(ListOf(kept), NameLess)

\* process_promo_folder up to the for loop
StartRun ==
    /\ pc = "START"
    /\ json_files' = IF folder_exists THEN get_json_files(directory) ELSE <<>>
    /\ processed' = IF folder_exists /\ cwd_is_app
                    THEN [processed EXCEPT !.exists = TRUE]
                    ELSE processed
    /\ IF ~folder_exists \/ json_files' = <<>>
       THEN /\ pc' = "RETURNED"
            /\ result' = "None"
            /\ UNCHANGED <<batches, entered, outcome, artifacts>>
       ELSE /\ pc' = "LOOP"
            /\ batches' = create_batches(json_files', batch_size)
            /\ entered' = [b \in 1..Len(batches') |-> <<>>]
            /\ outcome' = [b \in 1..Len(batches') |-> "pending"]
            /\ artifacts' = [b \in 1..Len(batches') |-> NoFile]
            /\ UNCHANGED result
    /\ UNCHANGED <<delays, excel, merges, open_handles, proc, traffic>>
    /\ UNCHANGED <<later, reads>>
    /\ UNCHANGED <<config, batch_num, csv_files, output_files, csv_file,
                   call, poll_pc, logs, last_sleep, started>>

\* The head of the for loop; a batch's body begins with upload_files.
ForNext ==
    /\ pc = "LOOP"
    /\ IF batch_num < Len(batches)
       THEN /\ batch_num' = NextBatchNum(batch_num)
            /\ started' = Append(started, batch_num')
            /\ outcome' = [outcome EXCEPT ![batch_num'] = "active"]
            /\ Enter(batch_num', "UPLOADING")
            /\ pc' = "UPLOADING"
            /\ download' = NoDownload
       ELSE /\ pc' = "COMBINE"
            /\ UNCHANGED <<batch_num, started, outcome, entered, download>>
    /\ UNCHANGED call
    /\ UNCHANGED <<json_files, delays, disk, proc, contacted>>
    /\ UNCHANGED <<processed, later, reads>>
    /\ UNCHANGED <<config, batches, csv_files, output_files, csv_file,
                   result, poll_pc, logs, last_sleep>>

\* The files of the batch the loop is at.
BatchFiles == {batches[batch_num][i] : i \in 1..Len(batches[batch_num])}

\* upload_files before its try: open(file_path, 'rb') for each file of the
\* batch, in order.  Either all open and the request is prepared, or the
\* open of some file raises with the files before it open.
UploadOpen ==
    /\ pc = "UPLOADING"
    /\ call.pc = "idle"
    /\ \E k \in 0..Len(batches[batch_num]) :
        /\ open_handles' =
              open_handles \cup {batches[batch_num][i] : i \in 1..k}
        /\ IF k = Len(batches[batch_num])
           THEN /\ call' = NewCall("upload_agenttmpfiles")
                /\ UNCHANGED <<pc, outcome, entered, last_sleep>>
           ELSE FailBatch
    /\ UNCHANGED <<json_files, delays, artifacts, excel, merges, proc, traffic>>
    /\ UNCHANGED <<processed, later, reads>>
    /\ UNCHANGED <<config, batches, batch_num, csv_files, output_files,
                   csv_file, result, poll_pc, logs, started>>

\* upload_files after its _api_call: the handles are closed on both paths
UploadFinish ==
    /\ pc = "UPLOADING"
    /\ CallOver
    /\ open_handles' = open_handles \ BatchFiles
    /\ consumed' = consumed \ BatchFiles
    /\ uploads' = <<>>
    /\ IF CallSucceeded
       THEN /\ pc' = "INGESTING"
            /\ Enter(batch_num, "INGESTING")
            /\ call' = IdleCall
            /\ UNCHANGED <<outcome, last_sleep>>
       ELSE FailBatch
    /\ UNCHANGED <<json_files, delays, artifacts, excel, merges, proc, traffic>>
    /\ UNCHANGED <<processed, later>>
    /\ UNCHANGED <<config, batches, batch_num, csv_files, output_files,
                   csv_file, result, poll_pc, logs, started>>

\* time.sleep(5), then get_job_input_files
IngestWait ==
    /\ pc = "INGESTING"
    /\ last_sleep' = IngestDelay
    /\ pc' = "VERIFYING"
    /\ Enter(batch_num, "VERIFYING")
    /\ call' = NewCall("get_jobinputfiles")
    /\ UNCHANGED <<json_files, delays, disk, proc, traffic>>
    /\ UNCHANGED <<processed, later, reads>>
    /\ UNCHANGED <<config, batches, batch_num, csv_files, output_files,
                   csv_file, result, poll_pc, logs, outcome, started>>

\* get_job_input_files after its _api_call, then run_agent
VerifyFinish ==
    /\ pc = "VERIFYING"
    /\ CallOver
    /\ IF CallSucceeded
       THEN /\ pc' = "STARTING_JOB"
            /\ Enter(batch_num, "STARTING_JOB")
            /\ call' = NewCall("run_agent")
            /\ UNCHANGED <<outcome, last_sleep>>
       ELSE FailBatch
    /\ UNCHANGED <<json_files, delays, disk, proc, traffic>>
    /\ UNCHANGED <<processed, later, reads>>
    /\ UNCHANGED <<config, batches, batch_num, csv_files, output_files,
                   csv_file, result, poll_pc, logs, started>>

\* run_agent after its _api_call, then poll_job_status
RunAgentFinish ==
    /\ pc = "STARTING_JOB"
    /\ CallOver
    /\ IF CallSucceeded
       THEN /\ pc' = "POLLING"
            /\ Enter(batch_num, "POLLING")
            /\ poll_pc' = "calling"
            /\ call' = NewCall("get_agentjoblogs")
            /\ UNCHANGED <<outcome, last_sleep>>
       ELSE FailBatch /\ UNCHANGED poll_pc
    /\ UNCHANGED <<json_files, delays, disk, proc, traffic>>
    /\ UNCHANGED <<processed, later, reads>>
    /\ UNCHANGED <<config, batches, batch_num, csv_files, output_files,
                   csv_file, result, logs, started>>

(* -------------------------- poll_job_status --------------------------- *)

\* Variant: the text is not lower-cased.
IsCompletion_case_sensitive(log) ==
    /\ log.type = CompletionType
    /\ Contains(Completed, log.text)

\* log.get('type') == 2 and 'completed' in text.lower()
IsCompletion(log) ==
    /\ log.type = CompletionType
    /\ Contains(Completed, LowerText(log.text))

RECURSIVE ScanFrom(_, _)
\* for log in logs: ... return True
ScanFrom(ls, i) ==
    IF i > Len(ls) THEN FALSE
    ELSE IF IsCompletion(ls[i]) THEN TRUE
    ELSE ScanFrom(ls, i + 1)

ScanLogs(ls) == ScanFrom(ls, 1)

\* Variant: an exception of the fetch is not caught.
PollBranch_raises ==
    IF ~(call.pc = "returned" /\ ~call.response.none) THEN "raised"
    ELSE IF ~call.response.success THEN "sleep_failed"
    ELSE IF ScanLogs(call.response.obj) THEN "returned"
    ELSE "sleep_scanned"

\* Variant: a response reporting failure ends the polling.
PollBranch_gives_up ==
    IF ~(call.pc = "returned" /\ ~call.response.none) THEN "sleep_except"
    ELSE IF ~call.response.success THEN "returned"
    ELSE IF ScanLogs(call.response.obj) THEN "returned"
    ELSE "sleep_scanned"

\* Where one iteration of the while loop goes once its _api_call is over.
PollBranch ==
    IF ~(call.pc = "returned" /\ ~call.response.none) THEN "sleep_except"
    ELSE IF ~call.response.success THEN "sleep_failed"
    ELSE IF ScanLogs(call.response.obj) THEN "returned"
    ELSE "sleep_scanned"

\* The body of the while loop after its _api_call.
PollFetched ==
    /\ pc = "POLLING"
    /\ poll_pc = "calling"
    /\ CallOver
    /\ poll_pc' = PollBranch
    /\ logs' = IF CallSucceeded THEN call.response.obj ELSE <<>>
    /\ call' = IdleCall
    /\ UNCHANGED <<json_files, delays, disk, proc, traffic>>
    /\ UNCHANGED <<processed, later, reads>>
    /\ UNCHANGED <<config, pc, batches, batch_num, csv_files, output_files,
                   csv_file, result, last_sleep, entered, outcome, started>>

\* time.sleep(self.config.poll_interval), then the next iteration
PollSleep ==
    /\ pc = "POLLING"
    /\ poll_pc \in {"sleep_scanned", "sleep_failed", "sleep_except"}
    /\ last_sleep' = PollInterval
    /\ poll_pc' = "calling"
    /\ logs' = <<>>
    /\ call' = NewCall("get_agentjoblogs")
    /\ UNCHANGED <<json_files, delays, disk, proc, traffic>>
    /\ UNCHANGED <<processed, later, reads>>
    /\ UNCHANGED <<config, pc, batches, batch_num, csv_files, output_files,
                   csv_file, result, entered, outcome, started>>

\* return True, then get_job_details
PollReturn ==
    /\ pc = "POLLING"
    /\ poll_pc = "returned"
    /\ poll_pc' = "none"
    /\ logs' = <<>>
    /\ pc' = "FETCHING_DETAILS"
    /\ Enter(batch_num, "FETCHING_DETAILS")
    /\ call' = NewCall("get_jobdetails")
    /\ UNCHANGED <<json_files, delays, disk, proc, traffic>>
    /\ UNCHANGED <<processed, later, reads>>
    /\ UNCHANGED <<config, batches, batch_num, csv_files, output_files,
                   csv_file, result, last_sleep, outcome, started>>

(* ------------------------- the rest of a batch ------------------------ *)

\* get_job_details after its _api_call, then get_output_files
DetailsFinish ==
    /\ pc = "FETCHING_DETAILS"
    /\ CallOver
    /\ IF CallSucceeded
       THEN /\ pc' = "LISTING_OUTPUTS"
            /\ Enter(batch_num, "LISTING_OUTPUTS")
            /\ call' = NewCall("get_docs")
            /\ UNCHANGED <<outcome, last_sleep>>
       ELSE FailBatch
    /\ UNCHANGED <<json_files, delays, disk, proc, traffic>>
    /\ UNCHANGED <<processed, later, reads>>
    /\ UNCHANGED <<config, batches, batch_num, csv_files, output_files,
                   csv_file, result, poll_pc, logs, started>>

\* get_output_files after its _api_call
OutputsFinish ==
    /\ pc = "LISTING_OUTPUTS"
    /\ CallOver
    /\ IF CallSucceeded
       THEN /\ pc' = "LOCATING_ARTIFACT"
            /\ Enter(batch_num, "LOCATING_ARTIFACT")
            /\ output_files' = call.response.obj
            /\ call' = IdleCall
            /\ UNCHANGED <<outcome, last_sleep>>
       ELSE FailBatch /\ UNCHANGED output_files
    /\ UNCHANGED <<json_files, delays, disk, proc, traffic>>
    /\ UNCHANGED <<processed, later, reads>>
    /\ UNCHANGED <<config, batches, batch_num, csv_files, csv_file, result,
                   poll_pc, logs, started>>

RECURSIVE FindFrom(_, _)
\* for file in output_files: if file['doc_filename'] == ...: break
FindFrom(files, i) ==
    IF i > Len(files) THEN 0
    ELSE IF files[i].doc_filename = ExpectedName THEN files[i].uuid
    ELSE FindFrom(files, i + 1)

RECURSIVE FindLastFrom(_, _)
\* Variant: the loop has no break, the last matching entry is kept.
FindLastFrom(files, i) ==
    IF i < 1 THEN 0
    ELSE IF files[i].doc_filename = ExpectedName THEN files[i].uuid
    ELSE FindLastFrom(files, i - 1)

FindCsv_last(files) == FindLastFrom(files, Len(files))

\* The uuid of the document found, 0 for csv_file = None.
FindCsv(files) == FindFrom(files, 1)

\* The search for the CSV document; without one the batch is left (continue).
Locate ==
    /\ pc = "LOCATING_ARTIFACT"
    /\ csv_file' = FindCsv(output_files)
    /\ output_files' = <<>>
    /\ IF csv_file' = 0
       THEN /\ outcome' = [outcome EXCEPT ![batch_num] = "abandoned"]
            /\ pc' = "LOOP"
            /\ UNCHANGED entered
       ELSE /\ pc' = "DOWNLOADING"
            /\ Enter(batch_num, "DOWNLOADING")
            /\ UNCHANGED outcome
    /\ UNCHANGED <<json_files, delays, disk, proc, traffic>>
    /\ UNCHANGED <<processed, later, reads>>
    /\ UNCHANGED <<config, batches, batch_num, csv_files, result, call,
                   poll_pc, logs, last_sleep, started>>

\* download_csv: one streamed request written to batch_NNN.csv, then
\* csv_files.append(csv_path)
Download ==
    /\ pc = "DOWNLOADING"
    /\ csv_file' = 0
    /\ download' = [sent |-> download.sent + 1, doc |-> csv_file]
    /\ contacted' = TRUE
    /\ \E o \in DownloadOutcomes :
        /\ artifacts' = IF o.status = 200
                        THEN [artifacts EXCEPT ![batch_num] = o.content]
                        ELSE artifacts
        /\ IF RequestFails(o) \/ o.kind = "StreamError"
           THEN /\ outcome' = [outcome EXCEPT ![batch_num] = "failed"]
                /\ pc' = "LOOP"
                /\ UNCHANGED <<csv_files, entered>>
           ELSE /\ csv_files' = Append(csv_files, batch_num)
                /\ outcome' = [outcome EXCEPT ![batch_num] = "done"]
                /\ pc' = "DONE"
                /\ Enter(batch_num, "DONE")
    /\ UNCHANGED <<json_files, delays, excel, merges, open_handles, proc>>
    /\ UNCHANGED <<processed, later, reads>>
    /\ UNCHANGED <<config, batches, batch_num, output_files, result, call,
                   poll_pc, logs, last_sleep, started>>

\* if batch_num < len(batches): time.sleep(5)
BatchEnd ==
    /\ pc = "DONE"
    /\ pc' = "LOOP"
    /\ IF batch_num < Len(batches)
       THEN /\ last_sleep' = BatchDelay
            /\ delays' = Append(delays, batch_num)
       ELSE UNCHANGED <<last_sleep, delays>>
    /\ UNCHANGED <<json_files, disk, proc, traffic>>
    /\ UNCHANGED <<processed, later, reads>>
    /\ UNCHANGED <<config, batches, batch_num, csv_files, output_files,
                   csv_file, result, call, poll_pc, logs, entered, outcome,
                   started>>

\* The rows pd.read_csv yields for the artifact of batch b.
RowsOf(b) == [k \in 1..artifacts[b].rows |-> <<b, k>>]

RECURSIVE CombineAll(_, _)
\* Variant: every batch_NNN.csv on disk is merged, listed or not.
CombineAll(files, i) ==
    IF i > Len(artifacts) THEN <<>>
    ELSE (IF artifacts[i].readable THEN RowsOf(i) ELSE <<>>)
         \o CombineAll(files, i + 1)

RECURSIVE CombineFrom(_, _)
\* combine_csvs' loop: each listed file in list order; one that read_csv
\* cannot parse is logged and left out.
CombineFrom(files, i) ==
    IF i > Len(files) THEN <<>>
    ELSE (IF artifacts[files[i]].readable THEN RowsOf(files[i]) ELSE <<>>)
         \o CombineFrom(files, i + 1)

\* Variant: the merger is invoked whatever the list holds.
HasArtifacts_always(files) == TRUE

\* if csv_files:
HasArtifacts(files) == files # <<>>

\* if csv_files: combine_csvs(...); return final_excel / else: return None.
\* to_excel may raise; the outer handler then returns None.
Combine ==
    /\ pc = "COMBINE"
    /\ pc' = "RETURNED"
    /\ IF HasArtifacts(csv_files)
       THEN /\ merges' = merges + 1
            /\ \E written \in BOOLEAN :
                IF written
                THEN /\ excel' = [written |-> TRUE, rows |-> CombineFrom(csv_files, 1)]
                     /\ processed' = IF cwd_is_app
                                     THEN [processed EXCEPT !.names = @ \cup {NameWritten}]
                                     ELSE processed
                     /\ result' = "final_excel"
                ELSE /\ excel' = excel
                     /\ result' = "None"
                     /\ UNCHANGED processed
       ELSE /\ result' = "None"
            /\ UNCHANGED <<excel, merges, processed>>
    /\ UNCHANGED <<json_files, delays, artifacts, open_handles, proc, traffic>>
    /\ UNCHANGED <<later, reads>>
    /\ UNCHANGED <<config, batches, batch_num, csv_files, output_files,
                   csv_file, call, poll_pc, logs, last_sleep, entered,
                   outcome, started>>

(* ------------------------------- main --------------------------------- *)

\* Everything but the process' own position and exit code.
run == <<config, json_files, batches, batch_num, csv_files, output_files,
         csv_file, result, call, poll_pc, logs, last_sleep, entered,
         outcome, started, delays, disk, traffic, processed, later, reads>>

\* Variant: the process exits 0 once the orchestrator returned.
ExitCode_always_zero(r) == 0

\* sys.exit(0) if result else sys.exit(1)
ExitCode(r) == IF r = "None" THEN 1 ELSE 0

\* ren3_processor.main up to the call of process_promo_folder
CliMain ==
    /\ pc = "MAIN"
    /\ IF ~has_arg
       THEN /\ exit_code' = 1
            /\ pc' = "EXITED"
            /\ UNCHANGED config_loaded
       ELSE /\ config_loaded' = TRUE
            /\ IF config_ok
               THEN /\ pc' = "START"
                    /\ UNCHANGED exit_code
               ELSE /\ exit_code' = 1
                    /\ pc' = "EXITED"
    /\ UNCHANGED run

\* ren3_processor.main after process_promo_folder returned
CliExit ==
    /\ pc = "RETURNED"
    /\ exit_code' = ExitCode(result)
    /\ pc' = "EXITED"
    /\ UNCHANGED <<processed, later, reads>>
    /\ UNCHANGED <<config_loaded, run>>

\* Variant: a processed directory is never recognised.
check_if_already_processed_never(dir) == FALSE

\* processed_dir.exists() and a final_analysis_*.xlsx entry in it
check_if_already_processed(dir) ==
    /\ dir.exists
    /\ \E n \in dir.names : StartsWith(n, FinalPrefix) /\ EndsWith(n, DotXlsx)

\* run_processor.main up to the call of process_promo_folder
DriverMain ==
    /\ pc = "DRIVER"
    /\ IF ~has_promo
       THEN /\ exit_code' = 1
            /\ pc' = "EXITED"
            /\ UNCHANGED config_loaded
       ELSE IF check_if_already_processed(processed)
       THEN /\ exit_code' = 0
            /\ pc' = "EXITED"
            /\ UNCHANGED config_loaded
       ELSE /\ config_loaded' = TRUE
            /\ IF config_ok
               THEN /\ pc' = "START"
                    /\ UNCHANGED exit_code
               ELSE /\ exit_code' = 1
                    /\ pc' = "EXITED"
    /\ UNCHANGED run

\* run_processor.main after process_promo_folder returned
DriverExit ==
    /\ pc = "RETURNED"
    /\ exit_code' = ExitCode(result)
    /\ pc' = "EXITED"
    /\ UNCHANGED <<processed, later, reads>>
    /\ UNCHANGED <<config_loaded, run>>

(* --------------------------- specification ---------------------------- *)

\* The state a process starts in, whatever its entry point.
Fresh ==
    /\ json_files = <<>>
    /\ batches = <<>>
    /\ batch_num = 0
    /\ csv_files = <<>>
    /\ output_files = <<>>
    /\ csv_file = 0
    /\ result = "pending"
    /\ call = IdleCall
    /\ poll_pc = "none"
    /\ logs = <<>>
    /\ last_sleep = 0
    /\ entered = <<>>
    /\ outcome = <<>>
    /\ started = <<>>
    /\ delays = <<>>
    /\ artifacts = <<>>
    /\ excel = NoExcel
    /\ merges = 0
    /\ exit_code = -1
    /\ config_loaded = FALSE
    /\ contacted = FALSE
    /\ download = NoDownload
    /\ open_handles = {}
    /\ consumed = {}
    /\ uploads = <<>>

\* python ren3_processor.py [<promo_folder_path>]
Init ==
    /\ max_retries \in 0..MaxRetries
    /\ batch_size \in 1..MaxBatchSize
    /\ folder_exists \in BOOLEAN
    /\ directory \in {FolderWith(n) : n \in 0..MaxFiles}
    /\ has_arg \in BOOLEAN
    /\ config_ok \in BOOLEAN
    /\ has_promo = FALSE
    /\ cwd_is_app = TRUE
    /\ processed = [exists |-> FALSE, names |-> {}]
    /\ runs = 1
    /\ produced = FALSE
    /\ pc = "MAIN"
    /\ Fresh

\* The body of the for loop and what follows it.
Run ==
    \/ StartRun
    \/ ForNext
    \/ UploadOpen
    \/ ApiAttempt
    \/ ApiLoopEnd
    \/ UploadFinish
    \/ IngestWait
    \/ VerifyFinish
    \/ RunAgentFinish
    \/ PollFetched
    \/ PollSleep
    \/ PollReturn
    \/ DetailsFinish
    \/ OutputsFinish
    \/ Locate
    \/ Download
    \/ BatchEnd
    \/ Combine

Next ==
    \/ CliMain
    \/ Run
    \/ CliExit

Spec == Init /\ [][Next]_vars

\* get_json_files and create_batches over every folder of the pool.
PrepInit ==
    /\ max_retries = 0
    /\ batch_size \in 1..MaxBatchSize
    /\ folder_exists = TRUE
    /\ directory \in SUBSET NamePool
    /\ has_arg = TRUE
    /\ config_ok = TRUE
    /\ has_promo = FALSE
    /\ cwd_is_app = TRUE
    /\ processed = [exists |-> FALSE, names |-> {}]
    /\ runs = 1
    /\ produced = FALSE
    /\ pc = "START"
    /\ Fresh

PrepSpec == PrepInit /\ [][StartRun]_vars

\* python run_processor.py
DriverInit ==
    /\ max_retries \in {0, 1}
    /\ batch_size = 1
    /\ has_promo \in BOOLEAN
    /\ folder_exists = has_promo
    /\ directory \in {FolderWith(n) : n \in 0..MaxFiles}
    /\ has_arg = FALSE
    /\ config_ok \in BOOLEAN
    /\ cwd_is_app \in BOOLEAN
    /\ processed \in ProcessedStates
    /\ runs = 1
    /\ produced = FALSE
    /\ pc = "DRIVER"
    /\ Fresh

\* The driver is launched again on the same promo folder: a new process,
\* with the files the earlier one left under /app/processed.  The
\* batch_NNN.csv of the earlier run are written anew before they are read,
\* so the new process starts without them.
DriverAgain ==
    /\ pc = "EXITED"
    /\ runs < MaxRuns
    /\ runs' = runs + 1
    /\ produced' = (produced \/ excel.written)
    /\ pc' = "DRIVER"
    /\ json_files' = <<>>
    /\ batches' = <<>>
    /\ batch_num' = 0
    /\ csv_files' = <<>>
    /\ output_files' = <<>>
    /\ csv_file' = 0
    /\ result' = "pending"
    /\ call' = IdleCall
    /\ poll_pc' = "none"
    /\ logs' = <<>>
    /\ last_sleep' = 0
    /\ entered' = <<>>
    /\ outcome' = <<>>
    /\ started' = <<>>
    /\ delays' = <<>>
    /\ artifacts' = <<>>
    /\ excel' = NoExcel
    /\ merges' = 0
    /\ exit_code' = -1
    /\ config_loaded' = FALSE
    /\ contacted' = FALSE
    /\ download' = NoDownload
    /\ open_handles' = {}
    /\ consumed' = {}
    /\ uploads' = <<>>
    /\ UNCHANGED <<config, processed>>

DriverNext ==
    \/ DriverMain
    \/ Run
    \/ DriverExit
    \/ DriverAgain

DriverSpec == DriverInit /\ [][DriverNext]_vars

(* ------------------------------ claims -------------------------------- *)

Over == {"done", "failed", "abandoned"}

IsPrefix(s, t) == Len(s) <= Len(t) /\ \A i \in 1..Len(s) : s[i] = t[i]

ServiceStates ==
    {"UPLOADING", "VERIFYING", "STARTING_JOB", "POLLING", "FETCHING_DETAILS",
     "LISTING_OUTPUTS"}

\* The service answered the latest request with a 2xx status.
Answered == call.wire.kind = "HTTP" /\ call.wire.status >= 200 /\ call.wire.status < 300

\* The service answered 2xx and reported success / failure.
AnsweredSuccess == Answered /\ call.wire.body.success
AnsweredFailure == Answered /\ ~call.wire.body.success

\* Two characters that differ at most in case.
CasePairs ==
    {<<"c","C">>, <<"o","O">>, <<"m","M">>, <<"p","P">>, <<"l","L">>,
     <<"e","E">>, <<"t","T">>, <<"d","D">>}
SameLetter(a, b) == a = b \/ <<a, b>> \in CasePairs \/ <<b, a>> \in CasePairs

\* The list holds an entry of type 2 whose text contains "completed",
\* whatever the case of its letters.
HasCompletionEntry(ls) ==
    \E i \in 1..Len(ls) :
        /\ ls[i].type = 2
        /\ \E off \in 0..(Len(ls[i].text) - 9) :
            \A k \in 1..9 : SameLetter(ls[i].text[off + k], Completed[k])

\* The pipeline state the run is in has succeeded (read before the step
\* that leaves it).
StateSucceeded ==
    CASE pc \in ServiceStates \ {"POLLING"} -> call.pc = "returned" /\ AnsweredSuccess
      [] pc = "POLLING" -> poll_pc = "returned"
      [] pc = "LOCATING_ARTIFACT" ->
            \E i \in 1..Len(output_files) : output_files[i].doc_filename = ExpectedName
      [] OTHER -> TRUE

\* C1: the states a batch has entered are always an initial part of the
\* order UPLOADING ... DONE (each at most once, none re-entered); a batch
\* enters its next state only from the state before it, only while that
\* state has succeeded, and only while it is the batch in progress; the
\* ingestion wait of 5 seconds has been taken when VERIFYING is entered and
\* DONE is entered only with the artifact recorded.
C1_PipelineOrder ==
    /\ [](\A b \in DOMAIN entered : IsPrefix(entered[b], PipelineOrder))
    /\ [][\A b \in DOMAIN entered :
            entered'[b] # entered[b] =>
                /\ b = batch_num'
                /\ entered'[b] = Append(entered[b], PipelineOrder[Len(entered[b]) + 1])
                /\ pc' = PipelineOrder[Len(entered'[b])]
                /\ entered[b] = <<>> => outcome[b] = "pending"
                /\ entered[b] # <<>> =>
                     /\ b = batch_num
                     /\ outcome[b] = "active"
                     /\ pc = PipelineOrder[Len(entered[b])]
                     /\ StateSucceeded
                /\ pc' = "VERIFYING" => last_sleep' = 5
                /\ pc' = "DONE" => csv_files' = Append(csv_files, b)]_vars

\* A batch went through the whole pipeline.
C1_Witness == \E b \in DOMAIN entered : entered[b] = PipelineOrder

\* C2: a step in which a batch fails or is abandoned leads back to the head
\* of the loop with the collected artifacts, the run's result and every
\* other batch's fate untouched; from the head of the loop the run's next
\* step starts the next batch while one is left; and a run that went
\* through its loop has started every batch.
C2_FailureIsBatchScoped ==
    /\ [][\A b \in DOMAIN outcome :
            (outcome[b] = "active" /\ outcome'[b] \in {"failed", "abandoned"}) =>
                /\ pc' = "LOOP"
                /\ csv_files' = csv_files
                /\ result' = "pending"
                /\ batch_num' = b
                /\ \A c \in DOMAIN outcome \ {b} : outcome'[c] = outcome[c]]_vars
    /\ [][(pc = "LOOP" /\ batch_num < Len(batches)) =>
                /\ pc' = "UPLOADING"
                /\ started' = Append(started, batch_num + 1)
                /\ outcome'[batch_num + 1] = "active"
                /\ csv_files' = csv_files]_vars
    /\ []((pc \in {"COMBINE", "RETURNED"} /\ batches # <<>>) =>
                /\ Len(started) = Len(batches)
                /\ \A b \in DOMAIN outcome : outcome[b] \in Over
                /\ \A b \in DOMAIN outcome :
                     outcome[b] = "done" <=> \E i \in 1..Len(csv_files) : csv_files[i] = b)

\* The first batch failed, the second was still processed and its artifact
\* makes the run's result.
C2_Witness ==
    /\ Len(batches) = 2
    /\ outcome[1] = "failed"
    /\ outcome[2] = "done"
    /\ csv_files = <<2>>
    /\ result = "final_excel"

C4_ExhaustedRaises ==
    (CallOver /\ ~Answered) =>
        /\ call.pc = "raised"
        /\ call.sent = max_retries
        /\ Len(call.waits) = call.sent - 1

\* C5: a 2xx response whose success field is false ends the call at once:
\* it is returned as received, no request and no wait follows it, and when
\* it answers the first request the call has sent one request and waited
\* never.
C5_FailureResponseNotRetried ==
    AnsweredFailure =>
        /\ call.pc = "returned"
        /\ call.response = call.wire.body
        /\ call.sent = call.attempt + 1
        /\ Len(call.waits) = call.attempt
        /\ call.attempt = 0 => (call.sent = 1 /\ call.waits = <<>>)

\* The first request is answered 2xx with success false.
C5_Witness ==
    /\ AnsweredFailure
    /\ call.pc = "returned"
    /\ call.sent = 1
    /\ ~call.response.success

\* C6: in every pipeline state that calls the service, once a call has
\* returned a response reporting failure, the next step aborts the current
\* batch and brings the run to the head of the loop.
C6_FailureResponseAbortsBatch ==
    [][(pc \in ServiceStates /\ call.pc = "returned" /\ AnsweredFailure) =>
            /\ outcome'[batch_num] = "failed"
            /\ pc' = "LOOP"]_vars

\* C7: once a log list was fetched and scanned, poll_job_status is at its
\* return exactly when the list holds a completion entry, and is at its
\* sleep (still polling) otherwise.
C7_CompletionDetection ==
    (poll_pc \in {"returned", "sleep_scanned"}) =>
        /\ pc = "POLLING"
        /\ poll_pc = "returned" <=> HasCompletionEntry(logs)

\* Completion found in the second entry, written in capitals, after a
\* progress entry.
C7_Witness ==
    /\ poll_pc = "returned"
    /\ logs = <<[type |-> 1, text |-> TextProgress], [type |-> 2, text |-> TextDone]>>

\* C8: in POLLING a failed request never ends the batch: while _api_call
\* retries the run stays in POLLING; when _api_call has raised, the poller
\* goes to its sleep with the batch still in progress; and from that sleep
\* it waits pollInterval seconds and starts a fresh fetch of the logs.
C8_PollErrorsSwallowed ==
    /\ [][(pc = "POLLING" /\ call.pc = "raised") =>
            /\ pc' = "POLLING"
            /\ poll_pc' = "sleep_except"
            /\ outcome' = outcome
            /\ outcome[batch_num] = "active"]_vars
    /\ [][(pc = "POLLING" /\ poll_pc = "sleep_except") =>
            /\ pc' = "POLLING"
            /\ poll_pc' = "calling"
            /\ last_sleep' = 15
            /\ call'.pc = "running"
            /\ call'.endpoint = "get_agentjoblogs"
            /\ call'.sent = 0
            /\ outcome' = outcome]_vars
    /\ [][(pc = "POLLING" /\ call'.sent = call.sent + 1 /\ ~(Answered')) =>
            /\ pc' = "POLLING"
            /\ outcome' = outcome]_vars

\* A fetch raised after its retries were used up, the batch is polling on.
C8_Witness ==
    /\ pc = "POLLING"
    /\ poll_pc = "sleep_except"
    /\ max_retries >= 2
    /\ last_sleep = 15
    /\ outcome[batch_num] = "active"

\* C9: the run leaves POLLING only from poll_job_status' return, which is
\* reached only with a fetched log list that holds a completion entry, and
\* only towards FETCHING_DETAILS; every other step taken in POLLING leaves
\* the batch in progress, starts no batch and does not end the run.
C9_PollingUnbounded ==
    /\ [](poll_pc = "returned" => HasCompletionEntry(logs))
    /\ [][(pc = "POLLING" /\ pc' # "POLLING") =>
            /\ poll_pc = "returned"
            /\ pc' = "FETCHING_DETAILS"]_vars
    /\ [][pc = "POLLING" =>
            /\ outcome'[batch_num] = "active"
            /\ batch_num' = batch_num
            /\ started' = started
            /\ result' = "pending"]_vars

\* A response reporting failure came in a later iteration of the loop and
\* the poller is at its sleep again.
C9_Witness ==
    /\ pc = "POLLING"
    /\ poll_pc = "sleep_failed"
    /\ last_sleep = 15
    /\ batch_num < Len(batches)

\* C10: the batches whose pipeline has started are 1, 2, ..., batch_num,
\* each once and in this order; every batch before the current one is over
\* (done, failed or abandoned), no batch after it has entered any state,
\* and only the current batch can be in progress.
C10_Sequential ==
    /\ started = [i \in 1..Len(started) |-> i]
    /\ batch_num = Len(started)
    /\ batch_num <= Len(batches)
    /\ \A b \in DOMAIN outcome :
        /\ b < batch_num => outcome[b] \in Over
        /\ b > batch_num => (outcome[b] = "pending" /\ entered[b] = <<>>)
        /\ outcome[b] = "active" => b = batch_num
        /\ outcome[b] # "pending" => entered[b][1] = "UPLOADING"
    /\ call.pc # "idle" => (batch_num >= 1 /\ outcome[batch_num] = "active")

\* The second batch is in progress after the first is done.
C10_Witness ==
    /\ started = <<1, 2>>
    /\ outcome[1] = "done"
    /\ outcome[2] = "active"
    /\ pc = "POLLING"

WasIn(b, s) == \E i \in 1..Len(entered[b]) : entered[b][i] = s

\* C11: once the next batch has begun, every batch before the last whose
\* remote job was started (it reached POLLING) has been followed by the
\* 5-second delay, whatever became of it afterwards.
C11_DelayAfterStartedBatch ==
    \A b \in DOMAIN outcome :
        (b < Len(batches) /\ WasIn(b, "POLLING") /\ b < batch_num) =>
            \E i \in 1..Len(delays) : delays[i] = b

RECURSIVE DoneRowsFrom(_)
\* The rows of the artifacts of the batches that reached DONE, from batch b
\* upward in ascending batch order.
DoneRowsFrom(b) ==
    IF b > Len(outcome) THEN <<>>
    ELSE (IF outcome[b] = "done"
          THEN [k \in 1..artifacts[b].rows |-> <<b, k>>]
          ELSE <<>>) \o DoneRowsFrom(b + 1)

RECURSIVE ReadableDoneRowsFrom(_)
\* The same, leaving out the artifacts that cannot be parsed.
ReadableDoneRowsFrom(b) ==
    IF b > Len(outcome) THEN <<>>
    ELSE (IF outcome[b] = "done" /\ artifacts[b].readable
          THEN [k \in 1..artifacts[b].rows |-> <<b, k>>]
          ELSE <<>>) \o ReadableDoneRowsFrom(b + 1)

\* C12 as stated: the combined result holds the rows of every artifact of a
\* batch that reached DONE, in ascending batch order, and nothing else.
C12_AllDoneRows == excel.written => excel.rows = DoneRowsFrom(1)

\* C12: the combined result holds exactly the rows of the artifacts of the
\* batches that reached DONE and that can be read as a table, concatenated
\* in ascending batch order; no row comes from a batch that failed or was
\* abandoned, even when such a batch left a file on disk.
C12_ReadableDoneRows == excel.written => excel.rows = ReadableDoneRowsFrom(1)

\* Two batches reached DONE with readable artifacts and the result holds
\* the rows of the first, then those of the second.
C12_Witness ==
    /\ excel.written
    /\ outcome = <<"done", "done">>
    /\ excel.rows = <<<<1, 1>>, <<2, 1>>>>

NoBatchDone == \A b \in DOMAIN outcome : outcome[b] # "done"

\* C13: while no batch of the run has reached DONE the merger has not been
\* invoked and no combined spreadsheet exists, and when
\* process_promo_folder returns in that case it returns no result.
C13_NoDoneNoMerge ==
    /\ NoBatchDone => (merges = 0 /\ ~excel.written)
    /\ (NoBatchDone /\ pc = "RETURNED") => result = "None"

\* A run of two batches, one failed and one abandoned, has returned.
C13_Witness ==
    /\ pc = "RETURNED"
    /\ outcome = <<"failed", "abandoned">>
    /\ merges = 0
    /\ result = "None"

\* C14: the process has an exit code only once it has exited; the code is
\* then 0 or 1, it is 0 exactly when the run wrote the combined result
\* file, and it is 1 after a missing argument, a configuration failure, a
\* missing folder, a folder without eligible files, a run without a DONE
\* batch and a merge that raised.
C14_ExitCode ==
    /\ pc # "EXITED" => exit_code = -1
    /\ pc = "EXITED" =>
        /\ exit_code \in {0, 1}
        /\ exit_code = 0 <=> excel.written
        /\ (\/ ~has_arg
            \/ ~config_ok
            \/ ~folder_exists
            \/ json_files = <<>>
            \/ NoBatchDone
            \/ merges = 1 /\ result = "None") => exit_code = 1

\* A run with a failed batch and a DONE batch wrote its result and exited 0.
C14_Witness ==
    /\ pc = "EXITED"
    /\ exit_code = 0
    /\ excel.written
    /\ outcome = <<"failed", "done">>

\* C15: the get_filestream download goes through the retry policy too: when
\* a batch fails in DOWNLOADING, the download request has been attempted
\* max_retries times.
C15_DownloadRetried ==
    (/\ pc = "LOOP"
     /\ batch_num >= 1
     /\ max_retries >= 1
     /\ outcome[batch_num] = "failed"
     /\ WasIn(batch_num, "DOWNLOADING")) => download.sent = max_retries

\* C16: whenever upload_files is not running (it has returned or raised, or
\* was not called yet), no file it opened is still open.
C16_HandlesClosed == pc # "UPLOADING" => open_handles = {}

\* The run neither loaded the configuration nor uploaded nor sent anything.
Untouched ==
    /\ ~config_loaded
    /\ ~contacted
    /\ open_handles = {}
    /\ batch_num = 0
    /\ call = IdleCall

\* C17 as stated: a driver that starts with an entry matching
\* final_analysis_* in the processed directory of the selected folder
\* skips: its one step is the exit with code 0, with no configuration
\* loaded, nothing uploaded and no request sent.
C17_SkipOnFinalAnalysis ==
    /\ [](pc = "DRIVER" => Untouched)
    /\ [][(/\ pc = "DRIVER"
           /\ has_promo
           /\ processed.exists
           /\ \E n \in processed.names : StartsWith(n, FinalPrefix)) =>
            (pc' = "EXITED" /\ exit_code' = 0 /\ Untouched')]_vars

\* C17: a driver that starts with an entry matching final_analysis_*.xlsx
\* in the processed directory of the selected folder skips: its one step
\* is the exit with code 0, with no configuration loaded, nothing uploaded
\* and no request sent.
C17_SkipOnFinalWorkbook ==
    /\ [](pc = "DRIVER" => Untouched)
    /\ [][(/\ pc = "DRIVER"
           /\ has_promo
           /\ processed.exists
           /\ \E n \in processed.names :
                  StartsWith(n, FinalPrefix) /\ EndsWith(n, DotXlsx)) =>
            (pc' = "EXITED" /\ exit_code' = 0 /\ Untouched')]_vars

\* The driver found the workbook of an earlier run and exited 0.
C17_Witness ==
    /\ pc = "EXITED"
    /\ exit_code = 0
    /\ has_promo
    /\ NameXlsx \in processed.names
    /\ ~contacted

CeilDiv(n, b) == (n + b - 1) \div b

RECURSIVE Flatten(_)
Flatten(bs) == IF bs = <<>> THEN <<>> ELSE Head(bs) \o Flatten(Tail(bs))

\* bs is a batching of the sequence fs by batch size b.
IsBatching(bs, fs, b) ==
    /\ Len(bs) = CeilDiv(Len(fs), b)
    /\ \A i \in 1..Len(bs) : bs[i] # <<>> /\ Len(bs[i]) <= b
    /\ Flatten(bs) = fs

\* C18: for the files found and every shorter sequence of them, down to
\* the empty one, and the batch size B, create_batches gives ceil(N/B)
\* batches, each non-empty and at most B long, whose concatenation in
\* batch order is the sequence; the batches the run loops over are such
\* a batching of the files found.
C18_Batching ==
    pc # "START" =>
        /\ \A n \in 0..Len(json_files) :
            IsBatching(create_batches(SubSeq(json_files, 1, n), batch_size),
                       SubSeq(json_files, 1, n), batch_size)
        /\ pc = "LOOP" => IsBatching(batches, json_files, batch_size)

\* Five files in batches of two: two full batches and one of a single file.
C18_Witness ==
    /\ pc = "LOOP"
    /\ Len(json_files) = 5
    /\ batch_size = 2
    /\ Len(batches) = 3
    /\ Len(batches[3]) = 1

\* C19: get_json_files returns exactly the names of the folder that end in
\* .json and do not start with '_', in strictly ascending order (so each
\* once); no name it returns starts with '_'.
C19_Discovery ==
    pc # "START" =>
        /\ \A n \in directory :
            (EndsWith(n, DotJson) /\ n[1] # "_") <=>
                (\E i \in 1..Len(json_files) : json_files[i] = n)
        /\ \A i \in 1..Len(json_files) :
            /\ json_files[i] \in directory
            /\ json_files[i][1] # "_"
            /\ \A j \in 1..Len(json_files) :
                i < j => NameLess(json_files[i], json_files[j])

\* The whole pool: the marked file and the text file are left out and the
\* five others come in code point order, the upper case name first.
C19_Witness ==
    /\ directory = NamePool
    /\ json_files = <<NameUpperB, NameA, NameAUnder, NameAb, NameB>>

\* The positions of the listed documents whose name is the expected one.
Matches == {i \in 1..Len(output_files) :
                output_files[i].doc_filename = "competitive_analysis_results.csv"}

\* C20: the step out of LOCATING_ARTIFACT goes to DOWNLOADING exactly when
\* a listed document is named competitive_analysis_results.csv, and the
\* download that follows asks once for the first such document of the
\* list; without one the batch is abandoned, no download request is sent
\* and no artifact is recorded or written for it, and the loop goes on with
\* the next batch.
C20_LocateArtifact ==
    /\ [][pc = "LOCATING_ARTIFACT" =>
            IF Matches # {}
            THEN /\ pc' = "DOWNLOADING"
                 /\ outcome' = outcome
                 /\ \E i \in Matches :
                     /\ \A j \in Matches : i <= j
                     /\ csv_file' = output_files[i].uuid
            ELSE /\ pc' = "LOOP"
                 /\ outcome' = [outcome EXCEPT ![batch_num] = "abandoned"]
                 /\ UNCHANGED <<download, contacted, csv_files, artifacts>>]_vars
    /\ [][pc = "DOWNLOADING" =>
            download' = [sent |-> 1, doc |-> csv_file]]_vars
    /\ [][(/\ pc = "LOOP"
           /\ batch_num >= 1
           /\ outcome[batch_num] = "abandoned"
           /\ batch_num < Len(batches)) =>
            (pc' = "UPLOADING" /\ batch_num' = batch_num + 1)]_vars
    /\ [](\A b \in DOMAIN outcome :
            /\ outcome[b] = "abandoned" =>
                /\ ~WasIn(b, "DOWNLOADING")
                /\ artifacts[b] = [readable |-> FALSE, rows |-> 0]
                /\ \A i \in 1..Len(csv_files) : csv_files[i] # b
            /\ (b = batch_num /\ download.sent > 0) => WasIn(b, "DOWNLOADING"))

\* After an abandoned batch, a batch whose list had the expected name at
\* its second place, behind another name, downloaded that document.
C20_Witness ==
    /\ pc = "DONE"
    /\ download = [sent |-> 1, doc |-> 2]
    /\ artifacts[batch_num].rows = 1
    /\ Len(batches) = 2
    /\ outcome[1] = "abandoned"

\* C21: in every driver run that follows a run which wrote a combined
\* result for the folder, the driver finds that result and skips: it loads
\* no configuration, sends no request and exits 0.
C21_LaterRunsSkip ==
    produced =>
        /\ Untouched
        /\ pc \in {"DRIVER", "EXITED"}
        /\ pc = "EXITED" => exit_code = 0

\* C22: every upload attempt of the batch, the first and each retry, had
\* the whole content of every file of the batch in its request body.
C22_RetriesSendWholeFiles ==
    pc = "UPLOADING" =>
        \A i \in 1..Len(uploads) :
            uploads[i] = {batches[batch_num][k] : k \in 1..Len(batches[batch_num])}

====
